---- MODULE Spec2Model ----
(***************************************************************************)
(* A model of the NanoBananaMCP server of src/src/index.ts: the tool       *)
(* dispatcher, the configuration fields (config, genAI, configSource), the *)
(* session slot lastImagePath, and the generate/edit pipelines cut at      *)
(* their await points (remote call, mkdir, writeFile, readFile, access,    *)
(* stat).  The file system, the clock, the random source and the remote    *)
(* service are the environment.                                            *)
(***************************************************************************)
EXTENDS Integers, Sequences, FiniteSets, TLC

(***************************************************************************)
(* Bounds of the model.                                                    *)
(***************************************************************************)
MaxCalls == 3
MaxClock == 1

(***************************************************************************)
(* JavaScript values.  Every value is a record so that values of different *)
(* JavaScript types can be compared.                                       *)
(***************************************************************************)
Undefined == [t |-> "undefined"]
Null == [t |-> "null"]
Str(s) == [t |-> "string", v |-> s]

IsString(x) == x.t = "string"
\* JavaScript truthiness of a string-or-undefined value
Truthy(x) == IsString(x) /\ x.v # ""

(***************************************************************************)
(* Buffer <-> base64.  A buffer is a sequence of bytes 0..255; a base64    *)
(* string is a sequence of sextets 0..63 with Pad (64) for '='.            *)
(***************************************************************************)
Pad == 64

RECURSIVE Base64Encode(_)
Base64Encode(bytes) ==
    IF Len(bytes) = 0 THEN <<>>
    ELSE IF Len(bytes) = 1 THEN
        << bytes[1] \div 4, (bytes[1] % 4) * 16, Pad, Pad >>
    ELSE IF Len(bytes) = 2 THEN
        << bytes[1] \div 4,
           (bytes[1] % 4) * 16 + bytes[2] \div 16,
           (bytes[2] % 16) * 4, Pad >>
    ELSE
        << bytes[1] \div 4,
           (bytes[1] % 4) * 16 + bytes[2] \div 16,
           (bytes[2] % 16) * 4 + bytes[3] \div 64,
           bytes[3] % 64 >>
        \o Base64Encode(SubSeq(bytes, 4, Len(bytes)))

RECURSIVE Base64Decode(_)
Base64Decode(b64) ==
    IF Len(b64) < 2 \/ b64[1] = Pad \/ b64[2] = Pad THEN <<>>
    ELSE IF Len(b64) = 2 \/ b64[3] = Pad THEN
        << b64[1] * 4 + b64[2] \div 16 >>
    ELSE IF Len(b64) = 3 \/ b64[4] = Pad THEN
        << b64[1] * 4 + b64[2] \div 16,
           (b64[2] % 16) * 16 + b64[3] \div 4 >>
    ELSE
        << b64[1] * 4 + b64[2] \div 16,
           (b64[2] % 16) * 16 + b64[3] \div 4,
           (b64[3] % 4) * 64 + b64[4] >>
        \o Base64Decode(SubSeq(b64, 5, Len(b64)))

(***************************************************************************)
(* Paths.  A file or directory name is a sequence of strings whose last    *)
(* element, when there are several, is the extension: "pic.png" is         *)
(* <<"pic", ".png">>.  A path string is [abs, segs]: whether it starts     *)
(* with "/" and its "/"-separated names.  The empty string is EmptyPath.   *)
(***************************************************************************)
Name(s) == << s >>
File(stem, ext) == << stem, ext >>
DotDot == << ".." >>
Dot == << "." >>

AbsPath(segs) == [t |-> "string", abs |-> TRUE, segs |-> segs]
RelPath(segs) == [t |-> "string", abs |-> FALSE, segs |-> segs]
EmptyPath == RelPath(<<>>)

\* truthiness of a path-string-or-undefined value
TruthyPath(p) == IsString(p) /\ (p.abs \/ p.segs # <<>>)

\* path.normalize on the segments: "." dropped, ".." pops a name
RECURSIVE NormalizeSegs(_, _, _)
NormalizeSegs(abs, done, rest) ==
    IF rest = <<>> THEN done
    ELSE LET s == Head(rest) IN
         IF s = Dot THEN NormalizeSegs(abs, done, Tail(rest))
         ELSE IF s = DotDot THEN
             IF done # <<>> /\ done[Len(done)] # DotDot
             THEN NormalizeSegs(abs, SubSeq(done, 1, Len(done) - 1), Tail(rest))
             ELSE IF abs THEN NormalizeSegs(abs, done, Tail(rest))
             ELSE NormalizeSegs(abs, Append(done, s), Tail(rest))
         ELSE NormalizeSegs(abs, Append(done, s), Tail(rest))

\* path.join(a, b): the two strings joined by "/" and normalized; the
\* result is absolute exactly when the joined string starts with "/"
PathJoin(a, b) ==
    LET abs == IF a.abs \/ a.segs # <<>> THEN a.abs ELSE b.abs
    IN  [t |-> "string", abs |-> abs,
         segs |-> NormalizeSegs(abs, <<>>, a.segs \o b.segs)]

\* path.dirname(p): everything before the last name; "." or "/" when
\* there is a single name
Dirname(p) ==
    IF Len(p.segs) <= 1
    THEN [t |-> "string", abs |-> p.abs, segs |-> IF p.abs THEN <<>> ELSE << Dot >>]
    ELSE [t |-> "string", abs |-> p.abs, segs |-> SubSeq(p.segs, 1, Len(p.segs) - 1)]

\* path.basename(p): the last name, as a relative one-name path
Basename(p) ==
    IF p.segs = <<>> THEN EmptyPath
    ELSE RelPath(<< p.segs[Len(p.segs)] >>)

\* path.extname(p)
Extname(p) ==
    IF p.segs = <<>> THEN ""
    ELSE LET n == p.segs[Len(p.segs)]
         IN IF Len(n) > 1 THEN n[Len(n)] ELSE ""

\* String.prototype.toLowerCase on the extensions of the model
ToLowerCase(e) ==
    CASE e = ".PNG" -> ".png"
      [] e = ".JPG" -> ".jpg"
      [] e = ".JPEG" -> ".jpeg"
      [] e = ".WEBP" -> ".webp"
      [] OTHER -> e

getMimeType(filePath) ==
    LET ext == ToLowerCase(Extname(filePath))
    IN  CASE ext = ".jpg" -> "image/jpeg"
          [] ext = ".jpeg" -> "image/jpeg"
          [] ext = ".png" -> "image/png"
          [] ext = ".webp" -> "image/webp"
          [] OTHER -> "image/jpeg"

\* whether path p is directory d or lies below it
IsPrefix(s, t) == Len(s) <= Len(t) /\ SubSeq(t, 1, Len(s)) = s
Under(p, d) == p.abs = d.abs /\ IsPrefix(d.segs, p.segs)

(***************************************************************************)
(* The environment's data: process.env, process.cwd(), the files that      *)
(* exist at startup, and what callers and the remote service may send.     *)
(***************************************************************************)
Cwd == AbsPath(<< Name("home"), Name("proj") >>)
WorkDir == AbsPath(<< Name("work") >>)
InDir == AbsPath(<< Name("in") >>)

EnvApiKeys == { Undefined, Str(""), Str("k0") }

ImgA == AbsPath(<< Name("in"), File("a", ".PNG") >>)
ImgGone == AbsPath(<< Name("in"), File("gone", ".webp") >>)
Ref1 == AbsPath(<< Name("in"), File("r1", ".jpg") >>)
Ref2 == AbsPath(<< Name("in"), Name("r2") >>)
RefBad == AbsPath(<< Name("in"), File("nope", ".png") >>)

InitFiles == (ImgA :> << 1 >>) @@ (Ref1 :> << 2, 3 >>) @@ (Ref2 :> << 4, 5, 6 >>)
InitDirs == { AbsPath(<<>>), InDir, AbsPath(<< Name("home") >>), Cwd }

Array(seq) == [t |-> "array", v |-> seq]

OutPic == RelPath(<< Name("out"), File("pic", ".png") >>)
UpPic == RelPath(<< DotDot, File("pic", ".png") >>)
AbsPic == AbsPath(<< Name("out"), File("pic", ".png") >>)
RelChoices == { Undefined, OutPic, UpPic, AbsPic }

RefChoices == { Undefined, Array(<<>>), Array(<< RefBad, Ref1 >>),
                Array(<< Ref2, RefBad, Ref1 >>), Array(<< Ref1, Ref1 >>) }

Args(present, apiKey, prompt, rel, imagePath, refs) ==
    [present |-> present, apiKey |-> apiKey, prompt |-> prompt,
     relative_save_path |-> rel, imagePath |-> imagePath,
     referenceImages |-> refs]

\* request.params.arguments absent altogether
NoArgs == Args(FALSE, Undefined, Undefined, Undefined, Undefined, Undefined)

ConfigureArgs ==
    { NoArgs } \cup
    { Args(TRUE, k, Undefined, Undefined, Undefined, Undefined) :
        k \in { Undefined, Str(""), Str("k1"), Str("k2") } }



ToolNames == { "configure_gemini_token", "generate_image", "edit_image",
               "get_configuration_status", "get_last_image_info" }
UnknownNames == { "continue_editing" }

\* response parts of the remote service
TextPart(txt) == [text |-> txt, inlineData |-> Null]
ImagePart(data, mime) ==
    [text |-> <<>>, inlineData |-> [data |-> data, mimeType |-> mime]]
ImgB1 == ImagePart(Base64Encode(<< 65 >>), Str("image/webp"))
ImgB2 == ImagePart(Base64Encode(<< 66, 67 >>), Undefined)
ImgNoData == ImagePart(<<>>, Str("image/png"))

\* a response of the remote service: whether candidates[0].content.parts
\* is there, and the parts
Response(parts) == [t |-> "response", hasParts |-> TRUE, parts |-> parts]
NoCandidates == [t |-> "response", hasParts |-> FALSE, parts |-> <<>>]

Responses ==
    { NoCandidates, Response(<< ImgB1 >>),
      Response(<< TextPart(<< "t1" >>), TextPart(<< "t2" >>) >>),
      Response(<< TextPart(<< "t1" >>), ImgB1, ImgNoData, TextPart(<< "t2" >>), ImgB2 >>) }

RandomIds == { "r1", "r2" }

\* new Date().toISOString().replace(/[:.]/g, '-'): the fixed-width
\* rendering of the clock, one string per instant
Digits == << "0", "1", "2", "3", "4", "5", "6", "7", "8", "9" >>
TimeStamp(now) == Digits[((now \div 10) % 10) + 1] \o Digits[(now % 10) + 1]

(***************************************************************************)
(* State: the fields of NanoBananaMCP, the file system, the clock, and the *)
(* tool calls in flight.                                                   *)
(***************************************************************************)
VARIABLES
    started,        \* run() has loaded the configuration and connected
    config,         \* this.config: Null or [geminiApiKey, workplacePath]
    genAI,          \* this.genAI: Null or the client built from an apiKey
    configSource,   \* this.configSource
    lastImagePath,  \* this.lastImagePath: Null or a path
    files,          \* the file system: path -> bytes
    dirs,           \* the file system: the directories
    clock,          \* the latest time read from the system clock
    calls,          \* slot -> the tool call occupying it
    ncalls,         \* tool calls accepted so far
    overlap         \* how many calls the transport lets be in flight at once

vars == << started, config, genAI, configSource, lastImagePath, files, dirs,
           clock, calls, ncalls, overlap >>

MaxInFlight == 2
Slots == 1 .. MaxInFlight

IdleCall ==
    [pc |-> "idle", name |-> "", args |-> NoArgs,
     i |-> 0,                 \* index of the reference image or response part at hand
     imageParts |-> <<>>,     \* the outbound payload being built / sent
     client |-> Null,         \* the client the remote call was made on
     nRemote |-> 0,           \* remote calls made
     response |-> Null,       \* the remote service's parts
     imagesDir |-> Null,
     pendingPath |-> Null,    \* the path handed to writeFile / access / stat
     textContent |-> <<>>,
     savedFiles |-> <<>>,
     images |-> <<>>,         \* the inline image entries pushed to content
     contents |-> Null,       \* the contents of the remote request sent
     mkdirs |-> {},           \* directories this call asked mkdir for
     seq |-> 0,               \* (history) the call is the seq-th one taken
     live |-> {},             \* (history) the credentials live during the call
     latest |-> FALSE,        \* (history) the call made the most recent write
     checked |-> FALSE,       \* (history) fs.access resolved for the call
     code |-> "", message |-> <<>>, content |-> <<>>]

McpError(code, message) == [mcp |-> TRUE, code |-> code, message |-> message]
JsError(message) == [mcp |-> FALSE, code |-> "", message |-> message]

\* the catch of the CallToolRequestSchema handler
HandlerCatch(error) ==
    IF error.mcp THEN error
    ELSE McpError("InternalError", << "Tool execution failed: " >> \o error.message)

\* the call ends with `error` thrown out of its handler method
Thrown(c, error) ==
    [c EXCEPT !.pc = "done", !.code = HandlerCatch(error).code,
              !.message = HandlerCatch(error).message]

\* the call ends returning { content }
Returned(c, content) == [c EXCEPT !.pc = "done", !.code = "ok", !.content = content]

TextEntry(text) == [type |-> "text", text |-> text]

FreeSlots == { s \in Slots : calls[s].pc \in { "idle", "done" } }
InFlight == Slots \ FreeSlots

\* (mutant) requests are taken before the configuration is loaded
CanDispatch_BeforeLoad(s) ==
    /\ ncalls < MaxCalls
    /\ Cardinality(InFlight) < overlap
    /\ s \in FreeSlots
    /\ \A t \in FreeSlots : s <= t

\* a request may be taken into slot s
CanDispatch(s) ==
    /\ started
    /\ ncalls < MaxCalls
    /\ Cardinality(InFlight) < overlap
    /\ s \in FreeSlots
    /\ \A t \in FreeSlots : s <= t

NewCall(name, args) ==
    [IdleCall EXCEPT !.pc = "running", !.name = name, !.args = args,
                     !.seq = ncalls + 1,
                     !.live = IF config = Null THEN {} ELSE { config.geminiApiKey }]

\* (mutant) a switch whose unknown names fall into the generate_image case
Route_FallThrough(name) ==
    CASE name = "configure_gemini_token" -> "configureGeminiToken"
      [] name = "edit_image" -> "editImage"
      [] name = "get_configuration_status" -> "getConfigurationStatus"
      [] name = "get_last_image_info" -> "getLastImageInfo"
      [] OTHER -> "generateImage"

\* the switch of the CallToolRequestSchema handler: the method a name runs
Route(name) ==
    CASE name = "configure_gemini_token" -> "configureGeminiToken"
      [] name = "generate_image" -> "generateImage"
      [] name = "edit_image" -> "editImage"
      [] name = "get_configuration_status" -> "getConfigurationStatus"
      [] name = "get_last_image_info" -> "getLastImageInfo"
      [] OTHER -> "default"

Init ==
    /\ started = FALSE
    /\ config = Null
    /\ genAI = Null
    /\ configSource = "not_configured"
    /\ lastImagePath = Null
    /\ files = InitFiles
    /\ dirs = InitDirs
    /\ clock = 0
    /\ calls = [s \in Slots |-> IdleCall]
    /\ ncalls = 0
    /\ overlap = 1

(***************************************************************************)
(* Configuration                                                           *)
(***************************************************************************)
\* (mutant) a schema without .min(1)
ValidConfig_NoMin(geminiApiKey, workplacePath) ==
    /\ IsString(geminiApiKey)
    /\ (workplacePath = Undefined \/ IsString(workplacePath))

\* ConfigSchema.parse succeeds
ValidConfig(geminiApiKey, workplacePath) ==
    /\ IsString(geminiApiKey)
    /\ Len(geminiApiKey.v) >= 1
    /\ (workplacePath = Undefined \/ IsString(workplacePath))

\* the message of the first issue of the ZodError
ZodMessage(geminiApiKey) ==
    IF geminiApiKey = Undefined THEN "Required"
    ELSE IF ~IsString(geminiApiKey) THEN "Expected string"
    ELSE "Gemini API key is required"

\* new GoogleGenAI({ apiKey })
GoogleGenAI(apiKey) == [apiKey |-> apiKey]
\* what the constructor throws when it does
ClientError == JsError(<< "GoogleGenAI: client construction failed" >>)

\* this.config?.workplacePath
ConfigWorkplacePath == IF config = Null THEN Undefined ELSE config.workplacePath

\* (mutant) the configuration check always passes
ensureConfigured_Always == TRUE

ensureConfigured == config # Null /\ genAI # Null

\* loadConfig, as run() calls it before connecting the transport
\* built: whether new GoogleGenAI returns (TRUE) or throws (FALSE)
loadConfig(envApiKey, envWorkplacePath, built) ==
    /\ ~started
    /\ started' = TRUE
    /\ IF Truthy(envApiKey) /\ ValidConfig(envApiKey, envWorkplacePath)
       THEN /\ config' = [geminiApiKey |-> envApiKey, workplacePath |-> envWorkplacePath]
            /\ IF built
               THEN /\ genAI' = GoogleGenAI(envApiKey)
                    /\ configSource' = "environment"
               ELSE /\ genAI' = genAI
                    /\ configSource' = "not_configured"
       ELSE /\ configSource' = "not_configured"
            /\ UNCHANGED << config, genAI >>
    /\ UNCHANGED << lastImagePath, files, dirs, clock, calls, ncalls, overlap >>

\* (mutant) configureGeminiToken forgets to record the source
ConfiguredBy_SourceKept(apiKey) ==
    [config |-> [geminiApiKey |-> apiKey, workplacePath |-> ConfigWorkplacePath],
     genAI |-> GoogleGenAI(apiKey),
     configSource |-> configSource]

\* (mutant) the new configuration starts without a workplace path
ConfiguredBy_PathDropped(apiKey) ==
    [config |-> [geminiApiKey |-> apiKey, workplacePath |-> Undefined],
     genAI |-> GoogleGenAI(apiKey),
     configSource |-> "config_file"]

\* (mutant) the client is dropped, to be built again when first used
ConfiguredBy_ClientLater(apiKey) ==
    [config |-> [geminiApiKey |-> apiKey, workplacePath |-> ConfigWorkplacePath],
     genAI |-> Null,
     configSource |-> "config_file"]

\* what a successful configureGeminiToken leaves in the three fields
ConfiguredBy(apiKey) ==
    [config |-> [geminiApiKey |-> apiKey, workplacePath |-> ConfigWorkplacePath],
     genAI |-> GoogleGenAI(apiKey),
     configSource |-> "config_file"]

\* (history) credential `key` went live while the calls in flight ran
Witnessed(key) ==
    [t \in Slots |-> IF t \in InFlight THEN [calls[t] EXCEPT !.live = @ \cup { key }]
                     ELSE calls[t]]

\* built: whether new GoogleGenAI returns (TRUE) or throws (FALSE)
configureGeminiToken(s, name, args, built) ==
    /\ CanDispatch(s)
    /\ Route(name) = "configureGeminiToken"
    /\ ncalls' = ncalls + 1
    /\ LET c == NewCall(name, args) IN
       IF ~args.present
       THEN /\ calls' = [calls EXCEPT ![s] =
                  Thrown(c, JsError(<< "Cannot destructure property 'apiKey'" >>))]
            /\ UNCHANGED << config, genAI, configSource >>
       ELSE IF ~ValidConfig(args.apiKey, ConfigWorkplacePath)
       THEN /\ calls' = [calls EXCEPT ![s] =
                  Thrown(c, McpError("InvalidParams",
                                     << "Invalid API key: ", ZodMessage(args.apiKey) >>))]
            /\ UNCHANGED << config, genAI, configSource >>
       ELSE IF ~built
       THEN /\ config' = ConfiguredBy(args.apiKey).config
            /\ UNCHANGED << genAI, configSource >>
            /\ calls' = [Witnessed(args.apiKey) EXCEPT ![s] = Thrown(c, ClientError)]
       ELSE /\ config' = ConfiguredBy(args.apiKey).config
            /\ genAI' = ConfiguredBy(args.apiKey).genAI
            /\ configSource' = ConfiguredBy(args.apiKey).configSource
            /\ calls' = [Witnessed(args.apiKey) EXCEPT ![s] =
                  Returned(c, << TextEntry([kind |-> "configured"]) >>)]
    /\ UNCHANGED << started, lastImagePath, files, dirs, clock, overlap >>

\* the workplace directory: this.config?.workplacePath || process.cwd()
WorkplaceDir ==
    IF TruthyPath(ConfigWorkplacePath) THEN ConfigWorkplacePath ELSE Cwd

\* the source line of the status text
SourceInfo(source) ==
    CASE source = "environment" -> "Source: Environment variable (GEMINI_API_KEY)"
      [] source = "config_file" -> "Source: Local configuration file (.nano-banana-config.json)"
      [] OTHER -> ""

StatusText ==
    IF config # Null /\ genAI # Null
    THEN [kind |-> "status", configured |-> TRUE,
          sourceInfo |-> SourceInfo(configSource),
          workplaceDir |-> WorkplaceDir,
          custom |-> TruthyPath(ConfigWorkplacePath)]
    ELSE [kind |-> "status", configured |-> FALSE,
          sourceInfo |-> "Configuration options",
          workplaceDir |-> Null,
          custom |-> FALSE]

getConfigurationStatus(s, name, args) ==
    /\ CanDispatch(s)
    /\ Route(name) = "getConfigurationStatus"
    /\ ncalls' = ncalls + 1
    /\ calls' = [calls EXCEPT ![s] =
          Returned(NewCall(name, args), << TextEntry(StatusText) >>)]
    /\ UNCHANGED << started, config, genAI, configSource, lastImagePath, files,
                    dirs, clock, overlap >>

\* the default branch of the dispatcher's switch
UnknownTool(s, name, args) ==
    /\ CanDispatch(s)
    /\ Route(name) = "default"
    /\ ncalls' = ncalls + 1
    /\ calls' = [calls EXCEPT ![s] =
          Thrown(NewCall(name, args),
                 McpError("MethodNotFound", << "Unknown tool: ", name >>))]
    /\ UNCHANGED << started, config, genAI, configSource, lastImagePath, files,
                    dirs, clock, overlap >>

(***************************************************************************)
(* generateImage and editImage                                             *)
(***************************************************************************)
NotConfiguredError ==
    McpError("InvalidRequest",
             << "Gemini API token not configured. Use configure_gemini_token first." >>)

\* (mutant) generateImage rethrows what it caught
GenerateCatch_Rethrow(error) == error

\* the catch blocks of generateImage and editImage
GenerateCatch(error) ==
    McpError("InternalError", << "Failed to generate image: " >> \o error.message)
EditCatch(error) ==
    McpError("InternalError", << "Failed to edit image: " >> \o error.message)
Catch(c, error) ==
    IF Route(c.name) = "editImage" THEN EditCatch(error) ELSE GenerateCatch(error)

NullClientError == JsError(<< "Cannot read properties of null (reading 'models')" >>)

generateImage(s, name, args) ==
    /\ CanDispatch(s)
    /\ Route(name) = "generateImage"
    /\ ncalls' = ncalls + 1
    /\ LET c == NewCall(name, args) IN
       calls' = [calls EXCEPT ![s] =
          IF ~ensureConfigured THEN Thrown(c, NotConfiguredError)
          ELSE IF ~args.present
          THEN Thrown(c, JsError(<< "Cannot destructure property 'prompt'" >>))
          ELSE IF genAI = Null THEN Thrown(c, GenerateCatch(NullClientError))
          ELSE [c EXCEPT !.pc = "awaitRemote", !.client = genAI,
                         !.contents = args.prompt, !.nRemote = @ + 1]]
    /\ UNCHANGED << started, config, genAI, configSource, lastImagePath, files,
                    dirs, clock, overlap >>

editImage(s, name, args) ==
    /\ CanDispatch(s)
    /\ Route(name) = "editImage"
    /\ ncalls' = ncalls + 1
    /\ LET c == NewCall(name, args) IN
       calls' = [calls EXCEPT ![s] =
          IF ~ensureConfigured THEN Thrown(c, NotConfiguredError)
          ELSE IF ~args.present
          THEN Thrown(c, JsError(<< "Cannot destructure property 'imagePath'" >>))
          ELSE [c EXCEPT !.pc = "awaitReadMain"]]
    /\ UNCHANGED << started, config, genAI, configSource, lastImagePath, files,
                    dirs, clock, overlap >>

\* fs.readFile(p) resolves
Readable(p) == IsString(p) /\ p \in DOMAIN files

InlinePart(data, mimeType) ==
    [text |-> Undefined, inlineData |-> [data |-> data, mimeType |-> mimeType]]
PromptPart(prompt) == [text |-> prompt, inlineData |-> Null]

\* one image read from disk as an outbound part
ReadPart(p) == InlinePart(Base64Encode(files[p]), getMimeType(p))

\* the prompt is pushed and the remote call is made on this.genAI
SendEdit(c) ==
    LET parts == Append(c.imageParts, PromptPart(c.args.prompt)) IN
    IF genAI = Null THEN Thrown(c, EditCatch(NullClientError))
    ELSE [c EXCEPT !.pc = "awaitRemote", !.client = genAI, !.imageParts = parts,
                   !.contents = Array(<< [parts |-> parts] >>), !.nRemote = @ + 1]

HasRefs(args) ==
    args.referenceImages # Undefined /\ Len(args.referenceImages.v) > 0

\* the call goes on to its reference images, or to the remote call
ToReferences(c) ==
    IF HasRefs(c.args) THEN [c EXCEPT !.pc = "awaitReadRef", !.i = 1]
    ELSE SendEdit(c)

\* (mutant) an unreadable primary image is skipped like a reference image
AfterReadMain_BestEffort(c) ==
    IF ~Readable(c.args.imagePath) THEN ToReferences(c)
    ELSE ToReferences([c EXCEPT !.imageParts = << ReadPart(c.args.imagePath) >>])

\* editImage once readFile(imagePath) has settled: a rejection goes to the
\* catch block, a buffer becomes the first part of the payload
AfterReadMain(c) ==
    IF ~Readable(c.args.imagePath)
    THEN Thrown(c, EditCatch(JsError(<< "ENOENT: no such file or directory" >>)))
    ELSE ToReferences([c EXCEPT !.imageParts = << ReadPart(c.args.imagePath) >>])

\* fs.readFile(imagePath) settles
ReadMainDone(s) ==
    /\ calls[s].pc = "awaitReadMain"
    /\ calls' = [calls EXCEPT ![s] = AfterReadMain(calls[s])]
    /\ UNCHANGED << started, config, genAI, configSource, lastImagePath, files,
                    dirs, clock, ncalls, overlap >>

\* (mutant) an unreadable reference is sent as an empty image
AddReference_Placeholder(imageParts, refPath) ==
    IF Readable(refPath) THEN Append(imageParts, ReadPart(refPath))
    ELSE Append(imageParts, InlinePart(<<>>, getMimeType(refPath)))

\* the body of the loop over referenceImages: a readable reference is
\* pushed, an unreadable one is skipped
AddReference(imageParts, refPath) ==
    IF Readable(refPath) THEN Append(imageParts, ReadPart(refPath))
    ELSE imageParts

\* fs.readFile(refPath) settles
ReadRefDone(s) ==
    /\ calls[s].pc = "awaitReadRef"
    /\ LET c == calls[s]
           refPath == c.args.referenceImages.v[c.i]
           c1 == [c EXCEPT !.imageParts = AddReference(@, refPath)]
       IN calls' = [calls EXCEPT ![s] =
             IF c.i < Len(c.args.referenceImages.v) THEN [c1 EXCEPT !.i = @ + 1]
             ELSE SendEdit(c1)]
    /\ UNCHANGED << started, config, genAI, configSource, lastImagePath, files,
                    dirs, clock, ncalls, overlap >>

\* the directory the images go to
ImagesDir(relative_save_path) ==
    IF TruthyPath(relative_save_path)
    THEN PathJoin(WorkplaceDir, Dirname(relative_save_path))
    ELSE WorkplaceDir

\* (mutant) the caller's file name is ignored
FileName_AlwaysGenerated(relative_save_path, prefix, now, randomId) ==
    RelPath(<< << prefix, TimeStamp(now), "-", randomId, ".png" >> >>)

\* the name of the file an image part is written to
FileName(relative_save_path, prefix, now, randomId) ==
    IF TruthyPath(relative_save_path)
    THEN Basename(relative_save_path)
    ELSE RelPath(<< << prefix, TimeStamp(now), "-", randomId, ".png" >> >>)

Prefix(c) == IF Route(c.name) = "editImage" THEN "edited-" ELSE "generated-"

FilePath(c, now, randomId) ==
    PathJoin(c.imagesDir, FileName(c.args.relative_save_path, Prefix(c), now, randomId))

RemoteFailure == [t |-> "failure"]

\* (mutant) a failed remote call is made once more
RemoteFailed_Retry(c) ==
    IF c.nRemote < 2 THEN [c EXCEPT !.nRemote = @ + 1]
    ELSE Thrown(c, Catch(c, JsError(<< "remote service error" >>)))

\* generateContent rejects: the catch block of the method rethrows
RemoteFailed(c) == Thrown(c, Catch(c, JsError(<< "remote service error" >>)))

\* generateContent settles; on a response the save directory is resolved
\* and mkdir is called
RemoteDone(s, r) ==
    /\ calls[s].pc = "awaitRemote"
    /\ LET c == calls[s] IN
         calls' = [calls EXCEPT ![s] =
            IF r = RemoteFailure
            THEN RemoteFailed(c)
            ELSE [c EXCEPT !.pc = "awaitMkdir", !.response = r,
                           !.imagesDir = ImagesDir(c.args.relative_save_path),
                           !.mkdirs = @ \cup { ImagesDir(c.args.relative_save_path) }]]
    /\ UNCHANGED << started, config, genAI, configSource, lastImagePath, files,
                    dirs, clock, ncalls, overlap >>

\* response.candidates[0].content.parts, when there is one
Parts(c) == IF c.response = Null \/ ~c.response.hasParts THEN <<>> ELSE c.response.parts

\* part.inlineData?.data
HasImageData(part) == part.inlineData # Null /\ part.inlineData.data # <<>>

\* the loop over the parts from part j up to the next writeFile: text is
\* accumulated, i becomes the index of the part to write (or one past the end)
RECURSIVE Scan(_, _)
Scan(c, j) ==
    IF j > Len(Parts(c)) THEN [c EXCEPT !.i = j]
    ELSE LET part == Parts(c)[j]
             c1 == IF part.text # <<>>
                   THEN [c EXCEPT !.textContent = @ \o part.text]
                   ELSE c
         IN IF HasImageData(part) THEN [c1 EXCEPT !.i = j] ELSE Scan(c1, j + 1)

\* the status text of the result
ResultText(c) ==
    [kind |-> IF Route(c.name) = "editImage" THEN "edited" ELSE "generated",
     prompt |-> c.args.prompt,
     original |-> c.args.imagePath,
     references |-> IF HasRefs(c.args) THEN c.args.referenceImages.v ELSE <<>>,
     description |-> c.textContent,
     saved |-> c.savedFiles,
     noImageNote |-> c.savedFiles = <<>>]

\* (mutant) the text entry is pushed after the images
ResultContent_TextLast(c) == c.images \o << TextEntry(ResultText(c)) >>

\* the text entry first, then the inline images
ResultContent(c) == << TextEntry(ResultText(c)) >> \o c.images

\* run the loop from part j: suspend in writeFile, or return the result
Continue(c, j, now, randomId) ==
    LET c1 == Scan(c, j) IN
    IF c1.i <= Len(Parts(c1))
    THEN [c1 EXCEPT !.pc = "awaitWrite", !.pendingPath = FilePath(c1, now, randomId)]
    ELSE Returned(c1, ResultContent(c1))

\* new Date() is read exactly when a file name is generated: the clock does
\* not run backwards, and is left alone when the step reads no time
ReadClock(c, now) ==
    IF c.pc = "awaitWrite" /\ ~TruthyPath(c.args.relative_save_path)
    THEN now >= clock /\ clock' = now
    ELSE now = clock /\ clock' = clock

AncestorsOrSelf(d) ==
    { [t |-> "string", abs |-> d.abs, segs |-> SubSeq(d.segs, 1, k)] :
        k \in 0 .. Len(d.segs) }
Parent(p) ==
    [t |-> "string", abs |-> p.abs, segs |-> SubSeq(p.segs, 1, Len(p.segs) - 1)]

\* mkdir -p can succeed: no name on the way is a file
MkdirPossible(d) == \A a \in AncestorsOrSelf(d) : a \notin DOMAIN files
\* writeFile can succeed: the target is no directory and its directory exists
WritePossible(p) == p.segs # <<>> /\ p \notin dirs /\ Parent(p) \in dirs

\* (mutant) writeFile leaves an existing file as it is
WriteFile_KeepExisting(fs, path, bytes) == fs @@ (path :> bytes)

\* the file system after fs.writeFile(path, bytes): created or replaced
WriteFile(fs, path, bytes) == (path :> bytes) @@ fs

\* fs.mkdir settles
MkdirDone(s, ok, now, randomId) ==
    /\ calls[s].pc = "awaitMkdir"
    /\ LET c == calls[s] IN
         /\ ok => MkdirPossible(c.imagesDir)
         /\ IF ok
            THEN /\ dirs' = dirs \cup AncestorsOrSelf(c.imagesDir)
                 /\ calls' = [calls EXCEPT ![s] = Continue(c, 1, now, randomId)]
                 /\ ReadClock(calls'[s], now)
            ELSE /\ UNCHANGED << dirs, clock >>
                 /\ calls' = [calls EXCEPT ![s] =
                       Thrown(c, Catch(c, JsError(<< "EACCES: permission denied, mkdir" >>)))]
    /\ UNCHANGED << started, config, genAI, configSource, lastImagePath, files,
                    ncalls, overlap >>

ImageEntry(part) ==
    [type |-> "image", data |-> part.inlineData.data,
     mimeType |-> IF Truthy(part.inlineData.mimeType)
                  THEN part.inlineData.mimeType.v ELSE "image/png"]

\* (mutant) a failed write returns what was saved so far
WriteFailed_Partial(c) == Returned(c, ResultContent(c))

\* fs.writeFile rejects: the catch block of the method rethrows
WriteFailed(c) ==
    Thrown(c, Catch(c, JsError(<< "ENOSPC: no space left on device, write" >>)))

\* (mutant) the path is recorded whether or not the write succeeded
LastImageAfter_Attempted(c, ok) == c.pendingPath

\* (mutant) the call that started last keeps the slot
LastImageAfter_StartOrder(c, ok) ==
    IF ok /\ \A t \in Slots : (calls[t].seq > c.seq => calls[t].savedFiles = <<>>)
    THEN c.pendingPath ELSE lastImagePath

\* this.lastImagePath after writeFile(filePath) settled
LastImageAfter(c, ok) == IF ok THEN c.pendingPath ELSE lastImagePath

\* (history) the call of slot s has made the most recent write
MarkLatest(cs, s) == [t \in Slots |-> [cs[t] EXCEPT !.latest = (t = s)]]

\* fs.writeFile settles
WriteDone(s, ok, now, randomId) ==
    /\ calls[s].pc = "awaitWrite"
    /\   LET c == calls[s]
             part == Parts(c)[c.i]
         IN
         /\ ok => WritePossible(c.pendingPath)
         /\ IF ok
            THEN /\ files' = WriteFile(files, c.pendingPath,
                                        Base64Decode(part.inlineData.data))
                 /\ calls' = MarkLatest([calls EXCEPT ![s] =
                       Continue([c EXCEPT !.savedFiles = Append(@, c.pendingPath),
                                          !.images = Append(@, ImageEntry(part))],
                                c.i + 1, now, randomId)], s)
                 /\ ReadClock(calls'[s], now)
            ELSE /\ UNCHANGED << files, clock >>
                 /\ calls' = [calls EXCEPT ![s] = WriteFailed(c)]
         /\ lastImagePath' = LastImageAfter(c, ok)
    /\ UNCHANGED << started, config, genAI, configSource, dirs, ncalls, overlap >>

(***************************************************************************)
(* getLastImageInfo                                                        *)
(***************************************************************************)
\* (mutant) existence is remembered from the write, not looked up
Exists_Cached(p) == TRUE

\* fs.access(p) / fs.stat(p) resolve: there is a file or directory at p
Exists(p) == p \in DOMAIN files \/ p \in dirs
StatSize(p) == IF p \in DOMAIN files THEN Len(files[p]) ELSE 4096
\* Math.round(size / 1024)
RoundKB(size) == (2 * size + 1024) \div 2048

NoImageText == [kind |-> "none", path |-> Null, sizeKB |-> 0]
NotFoundText == [kind |-> "notfound", path |-> lastImagePath, sizeKB |-> 0]
InfoText(p) == [kind |-> "info", path |-> lastImagePath, sizeKB |-> RoundKB(StatSize(p))]

getLastImageInfo(s, name, args) ==
    /\ CanDispatch(s)
    /\ Route(name) = "getLastImageInfo"
    /\ ncalls' = ncalls + 1
    /\ LET c == NewCall(name, args) IN
       calls' = [calls EXCEPT ![s] =
          IF lastImagePath = Null THEN Returned(c, << TextEntry(NoImageText) >>)
          ELSE [c EXCEPT !.pc = "awaitAccess", !.pendingPath = lastImagePath]]
    /\ UNCHANGED << started, config, genAI, configSource, lastImagePath, files,
                    dirs, clock, overlap >>

\* fs.access settles
AccessDone(s) ==
    /\ calls[s].pc = "awaitAccess"
    /\ LET c == calls[s] IN
       calls' = [calls EXCEPT ![s] =
          IF Exists(c.pendingPath)
          THEN [c EXCEPT !.pc = "awaitStat", !.pendingPath = lastImagePath,
                         !.checked = TRUE]
          ELSE Returned(c, << TextEntry(NotFoundText) >>)]
    /\ UNCHANGED << started, config, genAI, configSource, lastImagePath, files,
                    dirs, clock, ncalls, overlap >>

\* fs.stat settles
StatDone(s) ==
    /\ calls[s].pc = "awaitStat"
    /\ LET c == calls[s] IN
       calls' = [calls EXCEPT ![s] =
          IF Exists(c.pendingPath)
          THEN Returned(c, << TextEntry(InfoText(c.pendingPath)) >>)
          ELSE Returned(c, << TextEntry(NotFoundText) >>)]
    /\ UNCHANGED << started, config, genAI, configSource, lastImagePath, files,
                    dirs, clock, ncalls, overlap >>

(***************************************************************************)
(* The environment: the last image is moved or deleted by someone else     *)
(* while no image is being produced.                                       *)
(***************************************************************************)
Producing(s) == calls[s].pc \in { "awaitReadMain", "awaitReadRef", "awaitRemote",
                                  "awaitMkdir", "awaitWrite" }

DeleteLastImage ==
    /\ lastImagePath # Null
    /\ lastImagePath \in DOMAIN files
    /\ \A s \in Slots : ~Producing(s)
    /\ files' = [p \in DOMAIN files \ { lastImagePath } |-> files[p]]
    /\ UNCHANGED << started, config, genAI, configSource, lastImagePath, dirs,
                    clock, calls, ncalls, overlap >>

RequestNames == ToolNames \cup UnknownNames

(***************************************************************************)
(* The next-state relation, over the inputs the environment draws from:    *)
(* the startup environment, the requests callers send, what the remote     *)
(* service answers, whether mkdir/writeFile succeed, and the random ids.   *)
(***************************************************************************)
Inputs(envKeys, envPaths, builds, configureArgs, generateArgs, editArgs, outcomes, ids) ==
    [envKeys |-> envKeys, envPaths |-> envPaths, builds |-> builds,
     configureArgs |-> configureArgs,
     generateArgs |-> generateArgs, editArgs |-> editArgs, outcomes |-> outcomes,
     ids |-> ids]

\* the arguments callers send with each tool name
ArgsFor(I, name) ==
    CASE name = "configure_gemini_token" -> I.configureArgs
      [] name = "generate_image" -> I.generateArgs
      [] name = "edit_image" -> I.editArgs
      [] OTHER -> { NoArgs }

NextOf(I) ==
    \/ \E k \in I.envKeys, w \in I.envPaths, b \in I.builds : loadConfig(k, w, b)
    \/ \E s \in Slots, n \in RequestNames : \E a \in ArgsFor(I, n) :
          \/ \E b \in I.builds : configureGeminiToken(s, n, a, b)
          \/ generateImage(s, n, a)
          \/ editImage(s, n, a)
          \/ getConfigurationStatus(s, n, a)
          \/ getLastImageInfo(s, n, a)
          \/ UnknownTool(s, n, a)
    \/ \E s \in Slots :
          \/ ReadMainDone(s)
          \/ ReadRefDone(s)
          \/ \E r \in I.outcomes : RemoteDone(s, r)
          \/ \E ok \in BOOLEAN, now \in 0 .. MaxClock, id \in I.ids :
                \/ MkdirDone(s, ok, now, id)
                \/ WriteDone(s, ok, now, id)
          \/ AccessDone(s)
          \/ StatDone(s)
    \/ DeleteLastImage

Prompted(rel, imagePath, refs) == Args(TRUE, Undefined, Str("p"), rel, imagePath, refs)

\* Dispatch and configuration: every shape of request, every kind of failure
DispatchInputs ==
    Inputs(EnvApiKeys, { Undefined, WorkDir }, { TRUE },
           ConfigureArgs,
           { NoArgs, Args(TRUE, Undefined, Undefined, OutPic, Undefined, Undefined),
             Prompted(OutPic, Undefined, Undefined) },
           { NoArgs, Args(TRUE, Undefined, Str("p"), OutPic, Undefined, Undefined),
             Args(TRUE, Undefined, Undefined, OutPic, ImgA, Undefined),
             Prompted(OutPic, ImgGone, Array(<< RefBad, Ref1 >>)),
             Prompted(OutPic, ImgA, Array(<< RefBad, Ref1 >>)) },
           { Response(<< ImgB1 >>), RemoteFailure },
           { "r1" })

Next == NextOf(DispatchInputs)

Spec == Init /\ [][Next]_vars

\* Image production under a caller-given save path, on a server configured
\* from the environment: every such path, every shape of response, several
\* reference lists
ImageInputs ==
    Inputs({ Str("k0") }, { Undefined, WorkDir }, { TRUE },
           { Args(TRUE, Str("k1"), Undefined, Undefined, Undefined, Undefined) },
           { Prompted(r, Undefined, Undefined) : r \in RelChoices \ { Undefined } },
           { Prompted(UpPic, ImgA, Undefined),
             Prompted(OutPic, ImgGone, Array(<< Ref1 >>)) } \cup
           { Prompted(OutPic, ImgA, f) : f \in RefChoices \ { Undefined } },
           Responses \cup { RemoteFailure },
           { "r1" })

NextImages == NextOf(ImageInputs)

SpecImages == Init /\ [][NextImages]_vars

\* Image production without a save path: the file names are generated from
\* the clock and the random source
NameInputs ==
    Inputs({ Str("k0") }, { Undefined }, { TRUE },
           { Args(TRUE, Str("k1"), Undefined, Undefined, Undefined, Undefined) },
           { Prompted(Undefined, Undefined, Undefined) },
           { Prompted(Undefined, ImgA, Array(<< Ref1 >>)) },
           { Response(<< ImgB1, ImgB2 >>) },
           RandomIds)

NextNames == NextOf(NameInputs)

SpecNames == Init /\ [][NextNames]_vars

\* Configuration: every credential the environment and callers may give,
\* the client constructor returning or throwing
ConfigInputs ==
    Inputs(EnvApiKeys, { Undefined, WorkDir }, BOOLEAN,
           ConfigureArgs,
           { Prompted(OutPic, Undefined, Undefined) },
           { Prompted(OutPic, ImgA, Array(<< Ref1 >>)) },
           { Response(<< ImgB1 >>), RemoteFailure },
           { "r1" })

NextConfig == NextOf(ConfigInputs)

SpecConfig == Init /\ [][NextConfig]_vars

\* Overlapping calls: the transport hands over a request while earlier
\* calls are suspended in their I/O
InitRace ==
    /\ started = FALSE
    /\ config = Null
    /\ genAI = Null
    /\ configSource = "not_configured"
    /\ lastImagePath = Null
    /\ files = InitFiles
    /\ dirs = InitDirs
    /\ clock = 0
    /\ calls = [s \in Slots |-> IdleCall]
    /\ ncalls = 0
    /\ overlap = MaxInFlight

RaceInputs ==
    Inputs({ Str("k0") }, { Undefined }, { TRUE },
           { Args(TRUE, Str("k1"), Undefined, Undefined, Undefined, Undefined) },
           { Prompted(OutPic, Undefined, Undefined) },
           { Prompted(UpPic, ImgA, Array(<< Ref1 >>)) },
           { Response(<< ImgB1 >>), RemoteFailure },
           { "r1" })

NextRace == NextOf(RaceInputs)

SpecRace == InitRace /\ [][NextRace]_vars

(***************************************************************************)
(* Properties                                                              *)
(***************************************************************************)
\* this step takes a new request into slot s
Accepted(s) ==
    /\ ncalls' = ncalls + 1
    /\ s \in FreeSlots
    /\ \A t \in FreeSlots : s <= t

Done(s) == calls[s].pc = "done"
Failed(s) == Done(s) /\ calls[s].code # "ok"
ImageTools == { "generate_image", "edit_image" }
FiveTools == { "configure_gemini_token", "generate_image", "edit_image",
               "get_configuration_status", "get_last_image_info" }

\* C1: a generate_image or edit_image request taken while no Configuration
\* is live ends at once with the not-configured error: no remote call, no
\* mkdir, no directory or file change, lastImagePath unchanged.
C1_NotConfigured ==
    [][\A s \in Slots :
         (Accepted(s) /\ calls'[s].name \in ImageTools /\ config = Null) =>
            /\ calls'[s].pc = "done"
            /\ calls'[s].code = "InvalidRequest"
            /\ calls'[s].message =
                 << "Gemini API token not configured. Use configure_gemini_token first." >>
            /\ calls'[s].nRemote = 0
            /\ calls'[s].mkdirs = {}
            /\ dirs' = dirs
            /\ files' = files
            /\ lastImagePath' = lastImagePath]_vars

\* an edit_image refused as not configured, after two earlier calls
C1_Witness ==
    \E s \in Slots :
       /\ Done(s) /\ calls[s].name = "edit_image" /\ calls[s].code = "InvalidRequest"
       /\ config = Null /\ ncalls = 3

ExplicitlyConfigured ==
    config # Null /\ genAI # Null /\ configSource = "config_file"

\* C2: a configure_gemini_token request with a non-empty credential succeeds
\* from any prior state and leaves the server configured by that credential with
\* source config_file (the code's name for a configure call); that lasts,
\* and every get_configuration_status taken then reports configured with the
\* configure-call source.
C2_ConfigureThenStatus ==
    /\ [][\A s \in Slots :
            (Accepted(s) /\ calls'[s].name = "configure_gemini_token"
               /\ calls'[s].args.present /\ Truthy(calls'[s].args.apiKey)) =>
               /\ calls'[s].pc = "done" /\ calls'[s].code = "ok"
               /\ config' # Null /\ config'.geminiApiKey = calls'[s].args.apiKey
               /\ genAI' = [apiKey |-> calls'[s].args.apiKey]
               /\ configSource' = "config_file"]_vars
    /\ [][ExplicitlyConfigured => ExplicitlyConfigured']_vars
    /\ [][\A s \in Slots :
            (Accepted(s) /\ calls'[s].name = "get_configuration_status"
               /\ ExplicitlyConfigured) =>
               /\ calls'[s].pc = "done" /\ calls'[s].code = "ok"
               /\ calls'[s].content[1].text.configured = TRUE
               /\ calls'[s].content[1].text.sourceInfo =
                    "Source: Local configuration file (.nano-banana-config.json)"]_vars

\* a status report taken after a configure call replaced the environment's
\* credential
C2_Witness ==
    \E s \in Slots :
       /\ Done(s) /\ calls[s].name = "get_configuration_status"
       /\ calls[s].content[1].text.configured
       /\ configSource = "config_file" /\ config.geminiApiKey = Str("k1")
       /\ config.workplacePath = WorkDir

\* C3: a configure_gemini_token request whose credential is the empty string
\* fails with InvalidParams and leaves config, genAI and configSource as
\* they were.
C3_EmptyCredential ==
    [][\A s \in Slots :
         (Accepted(s) /\ calls'[s].name = "configure_gemini_token"
            /\ calls'[s].args.present /\ calls'[s].args.apiKey = Str("")) =>
            /\ calls'[s].pc = "done"
            /\ calls'[s].code = "InvalidParams"
            /\ config' = config /\ genAI' = genAI /\ configSource' = configSource]_vars

\* an empty credential refused while a Configuration from the environment is live
C3_Witness ==
    \E s \in Slots :
       /\ Done(s) /\ calls[s].name = "configure_gemini_token"
       /\ calls[s].args.apiKey = Str("") /\ calls[s].code = "InvalidParams"
       /\ config # Null /\ configSource = "environment"

\* the request lacks an argument its tool requires
MissingRequired(c) ==
    \/ c.name = "generate_image" /\ (~c.args.present \/ c.args.prompt = Undefined)
    \/ c.name = "edit_image" /\ (~c.args.present \/ c.args.imagePath = Undefined
                                   \/ c.args.prompt = Undefined)

\* C4: a generate_image or edit_image request missing a required argument
\* fails at once with InvalidParams, configured or not, and makes no remote
\* call.
C4_MissingArgument ==
    \A s \in Slots :
       (calls[s].pc # "idle" /\ MissingRequired(calls[s])) =>
          /\ calls[s].pc = "done"
          /\ calls[s].code = "InvalidParams"
          /\ calls[s].nRemote = 0

\* the request's arguments violate the tool's declared shape
ShapeViolation(c) ==
    \/ MissingRequired(c)
    \/ c.name = "configure_gemini_token"
         /\ (~c.args.present \/ ~Truthy(c.args.apiKey))

\* the message of the failure a finished generate/edit call met
Underlying(c) ==
    IF c.nRemote = 0 THEN "ENOENT: no such file or directory"
    ELSE IF c.response = Null THEN "remote service error"
    ELSE IF c.pendingPath = Null THEN "EACCES: permission denied, mkdir"
    ELSE "ENOSPC: no space left on device, write"

FailurePrefix(c) ==
    IF c.name = "edit_image" THEN "Failed to edit image: " ELSE "Failed to generate image: "

\* C5 as claimed: every failure of a known tool on well-shaped arguments is
\* reported with the InternalError code.
C5_AllInternal ==
    \A s \in Slots :
       (Failed(s) /\ calls[s].name \in FiveTools /\ ~ShapeViolation(calls[s])) =>
          calls[s].code = "InternalError"

\* C5 amended: a failure of a known tool on well-shaped arguments is the
\* not-configured refusal, reported with InvalidRequest, when no
\* Configuration is live; otherwise (unreadable primary image, remote
\* failure, mkdir or write failure) it is reported with InternalError and
\* carries the underlying message.
C5_InternalUnlessNotConfigured ==
    \A s \in Slots :
       (Failed(s) /\ calls[s].name \in FiveTools /\ ~ShapeViolation(calls[s])) =>
          IF config = Null
          THEN calls[s].code = "InvalidRequest"
          ELSE /\ calls[s].code = "InternalError"
               /\ calls[s].message = << FailurePrefix(calls[s]), Underlying(calls[s]) >>

\* a generate_image that failed in writeFile
C5_Witness ==
    \E s \in Slots :
       /\ Failed(s) /\ calls[s].name = "generate_image" /\ ~ShapeViolation(calls[s])
       /\ calls[s].pendingPath # Null /\ calls[s].code = "InternalError"

\* C6: a request naming none of the five tools fails with MethodNotFound
\* without running a handler: no remote call, no mkdir, and the configuration
\* fields, lastImagePath and the file system are unchanged.
C6_UnknownTool ==
    [][\A s \in Slots :
         (Accepted(s) /\ calls'[s].name \notin FiveTools) =>
            /\ calls'[s].pc = "done"
            /\ calls'[s].code = "MethodNotFound"
            /\ calls'[s].nRemote = 0 /\ calls'[s].mkdirs = {}
            /\ config' = config /\ genAI' = genAI /\ configSource' = configSource
            /\ lastImagePath' = lastImagePath
            /\ files' = files /\ dirs' = dirs]_vars

\* an unknown tool refused on a configured server that holds a last image
C6_Witness ==
    \E s \in Slots :
       /\ Done(s) /\ calls[s].name = "continue_editing"
       /\ calls[s].code = "MethodNotFound"
       /\ config # Null /\ lastImagePath # Null

\* the parts of a response that carry image data, in response order
ImageData(response) ==
    LET parts == IF response.hasParts THEN response.parts ELSE <<>>
        withData == SelectSeq(parts, LAMBDA q : q.inlineData # Null /\ q.inlineData.data # <<>>)
    IN  [k \in 1 .. Len(withData) |-> withData[k].inlineData.data]

\* this step ends the generate/edit call of slot s with a result
Succeeds(s) ==
    /\ Producing(s)
    /\ calls'[s].pc = "done" /\ calls'[s].code = "ok"

\* C7: every file a generate/edit call has written lies in the workplace
\* directory or below it, whatever relative_save_path the caller gave.
C7_UnderWorkplace ==
    \A s \in Slots : \A k \in 1 .. Len(calls[s].savedFiles) :
       Under(calls[s].savedFiles[k], WorkplaceDir)

\* only a completing writeFile moves lastImagePath
OnlyWritesMoveLastImage ==
    [][lastImagePath' # lastImagePath => \E s \in Slots : calls[s].pc = "awaitWrite"]_vars

\* a get_last_image_info result names no path when there is no last image,
\* and lastImagePath otherwise
InfoReportsLastImage ==
    \A s \in Slots :
       (Done(s) /\ calls[s].name = "get_last_image_info") =>
          /\ calls[s].code = "ok"
          /\ calls[s].content[1].text.path = lastImagePath
          /\ (calls[s].content[1].text.kind = "none") = (lastImagePath = Null)

\* C8: when a generate/edit call with save path D/F on a configured server
\* gets a response with exactly one image part and returns, the file
\* {workplace}/D/F holds the decoded bytes of that part, it is the one file
\* the call saved, and lastImagePath is that path; lastImagePath then stays
\* until another image is written, and get_last_image_info reports it.
C8_RoundTrip ==
    /\ [][\A s \in Slots :
            (Succeeds(s) /\ TruthyPath(calls[s].args.relative_save_path)
               /\ Len(ImageData(calls[s].response)) = 1) =>
               LET p == PathJoin(WorkplaceDir, calls[s].args.relative_save_path) IN
               /\ p \in DOMAIN files'
               /\ files'[p] = Base64Decode(ImageData(calls[s].response)[1])
               /\ calls'[s].savedFiles = << p >>
               /\ lastImagePath' = p]_vars
    /\ OnlyWritesMoveLastImage
    /\ []InfoReportsLastImage

\* get_last_image_info reporting out/pic.png of the workplace, which holds
\* the bytes of the one-image response
C8_Witness ==
    \E s \in Slots :
       /\ Done(s) /\ calls[s].name = "get_last_image_info"
       /\ calls[s].content[1].text.kind = "info"
       /\ calls[s].content[1].text.path = PathJoin(WorkDir, OutPic)
       /\ files[PathJoin(WorkDir, OutPic)] = << 65 >>

\* C9: when a call with a save path gets a response with two or more image
\* parts and returns, every part was written to the one path
\* {workplace}/D/F in response order: the file holds the last part's bytes,
\* lastImagePath is that path (and is what get_last_image_info reports),
\* and the result carries one inline image per part, in order.
C9_SameNameCollision ==
    /\ [][\A s \in Slots :
            (Succeeds(s) /\ TruthyPath(calls[s].args.relative_save_path)
               /\ Len(ImageData(calls[s].response)) >= 2) =>
               LET p == PathJoin(WorkplaceDir, calls[s].args.relative_save_path)
                   data == ImageData(calls[s].response)
               IN
               /\ Len(calls'[s].savedFiles) = Len(data)
               /\ \A k \in 1 .. Len(data) : calls'[s].savedFiles[k] = p
               /\ files'[p] = Base64Decode(data[Len(data)])
               /\ lastImagePath' = p
               /\ Len(calls'[s].content) = 1 + Len(data)
               /\ \A k \in 1 .. Len(data) :
                     /\ calls'[s].content[k + 1].type = "image"
                     /\ calls'[s].content[k + 1].data = data[k]]_vars
    /\ []InfoReportsLastImage

\* an edit_image that saved two images under one name, the file holding the
\* second
C9_Witness ==
    \E s \in Slots :
       /\ Done(s) /\ calls[s].name = "edit_image" /\ calls[s].code = "ok"
       /\ Len(calls[s].savedFiles) = 2
       /\ calls[s].savedFiles[1] = calls[s].savedFiles[2]
       /\ files[calls[s].savedFiles[2]] = << 66, 67 >>
       /\ lastImagePath = calls[s].savedFiles[2]

\* the reference images of a request that can be read, in the order given
ReadableRefs(args) ==
    IF args.referenceImages = Undefined THEN <<>>
    ELSE SelectSeq(args.referenceImages.v, LAMBDA r : r \in DOMAIN files)

\* the image at path p as it is sent: its bytes in base64 and its mime type
Sent(p) == [text |-> Undefined,
            inlineData |-> [data |-> Base64Encode(files[p]), mimeType |-> getMimeType(p)]]

\* C10: an edit_image call whose primary image is readable sends one
\* content whose parts are the primary image, then exactly the readable
\* reference images in the order given, then the prompt; and it does not
\* fail before the remote call is made.
C10_ReferenceBestEffort ==
    \A s \in Slots :
       LET c == calls[s] IN
       (c.name = "edit_image" /\ c.args.present /\ c.args.imagePath \in DOMAIN files
          /\ config # Null) =>
          /\ c.nRemote >= 1 =>
               /\ c.nRemote = 1
               /\ c.contents =
                    Array(<< [parts |->
                       << Sent(c.args.imagePath) >>
                       \o [k \in 1 .. Len(ReadableRefs(c.args)) |-> Sent(ReadableRefs(c.args)[k])]
                       \o << [text |-> c.args.prompt, inlineData |-> Null] >>] >>)
          /\ Failed(s) => c.nRemote = 1

\* an edit_image sent with two of its three reference images, the
\* unreadable one skipped
C10_Witness ==
    \E s \in Slots :
       /\ calls[s].name = "edit_image" /\ calls[s].nRemote = 1
       /\ calls[s].args.referenceImages = Array(<< Ref2, RefBad, Ref1 >>)
       /\ Len(calls[s].contents.v[1].parts) = 4
       /\ Done(s) /\ calls[s].code = "ok"
\* C11: when readFile of the primary image of an edit_image call rejects,
\* the call ends there with InternalError "Failed to edit image: ..."; it
\* has read no reference image, built no payload, made no remote call and
\* no mkdir, and the step leaves files, directories and lastImagePath as
\* they were.  A call whose primary image is unreadable never gets further.
C11_PrimaryUnreadable ==
    /\ [][\A s \in Slots :
            (calls[s].pc = "awaitReadMain" /\ calls'[s].pc # "awaitReadMain"
               /\ ~Readable(calls[s].args.imagePath)) =>
               /\ calls'[s].pc = "done"
               /\ calls'[s].code = "InternalError"
               /\ calls'[s].message =
                    << "Failed to edit image: ", "ENOENT: no such file or directory" >>
               /\ calls'[s].content = <<>>
               /\ calls'[s].i = 0 /\ calls'[s].imageParts = <<>>
               /\ calls'[s].nRemote = 0 /\ calls'[s].mkdirs = {}
               /\ calls'[s].savedFiles = <<>>
               /\ files' = files /\ dirs' = dirs
               /\ lastImagePath' = lastImagePath]_vars
    /\ [](\A s \in Slots :
            (calls[s].name = "edit_image" /\ calls[s].args.present
               /\ ~Readable(calls[s].args.imagePath)) =>
               calls[s].pc \in { "awaitReadMain", "done" } /\ calls[s].nRemote = 0)

\* an edit_image with reference images that failed on its missing primary
\* image, while an earlier image is the last one
C11_Witness ==
    \E s \in Slots :
       /\ Done(s) /\ calls[s].name = "edit_image"
       /\ calls[s].args.imagePath = ImgGone /\ HasRefs(calls[s].args)
       /\ calls[s].code = "InternalError" /\ calls[s].nRemote = 0
       /\ lastImagePath # Null

\* C12: when a writeFile of a generate/edit call rejects, the call ends
\* with InternalError and no content, whatever it had saved before; and a
\* finished call that did not save every image part of its response is an
\* error without content, so a result is returned only with all of them.
C12_NoPartialSuccess ==
    /\ [][\A s \in Slots :
            (calls[s].pc = "awaitWrite" /\ calls'[s].pc # "awaitWrite"
               /\ Len(calls'[s].savedFiles) = Len(calls[s].savedFiles)) =>
               /\ calls'[s].pc = "done"
               /\ calls'[s].code = "InternalError"
               /\ calls'[s].message =
                    << FailurePrefix(calls[s]), "ENOSPC: no space left on device, write" >>
               /\ calls'[s].content = <<>>]_vars
    /\ [](\A s \in Slots :
            (Done(s) /\ calls[s].name \in ImageTools /\ calls[s].response # Null) =>
               /\ Len(calls[s].savedFiles) < Len(ImageData(calls[s].response)) =>
                     calls[s].code = "InternalError" /\ calls[s].content = <<>>
               /\ calls[s].code = "ok" =>
                     /\ Len(calls[s].savedFiles) = Len(ImageData(calls[s].response))
                     /\ Len(calls[s].content) = 1 + Len(calls[s].savedFiles))

\* a call that failed writing the second image of its response, the first
\* one being on disk
C12_Witness ==
    \E s \in Slots :
       /\ Done(s) /\ calls[s].name \in ImageTools
       /\ calls[s].response # Null /\ Len(ImageData(calls[s].response)) = 2
       /\ Len(calls[s].savedFiles) = 1
       /\ calls[s].savedFiles[1] \in DOMAIN files
       /\ calls[s].code = "InternalError" /\ calls[s].content = <<>>

\* the stored last image is on disk now
LastImageOnDisk == lastImagePath \in DOMAIN files

\* the text of the result the step gives the call of slot s
InfoResult(s) == calls'[s].content[1].text

\* C13: get_last_image_info answers from the file system as it is when the
\* call looks.  With no lastImagePath it reports no previous image at once.
\* Otherwise it first checks that the file exists: a missing file is
\* reported as not found; an existing one is then stat-ed, and the result
\* carries its size, or not found when the file has gone meanwhile.  Both
\* results echo lastImagePath, and no step of the call changes it.
C13_LastImageRecheck ==
    /\ [][\A s \in Slots :
            (Accepted(s) /\ calls'[s].name = "get_last_image_info") =>
               /\ lastImagePath' = lastImagePath
               /\ IF lastImagePath = Null
                  THEN /\ calls'[s].pc = "done" /\ calls'[s].code = "ok"
                       /\ InfoResult(s).kind = "none"
                  ELSE calls'[s].pc = "awaitAccess"]_vars
    /\ [][\A s \in Slots :
            (calls[s].pc = "awaitAccess" /\ calls'[s].pc # "awaitAccess") =>
               /\ lastImagePath' = lastImagePath
               /\ IF LastImageOnDisk
                  THEN calls'[s].pc = "awaitStat"
                  ELSE /\ calls'[s].pc = "done" /\ calls'[s].code = "ok"
                       /\ InfoResult(s).kind = "notfound"
                       /\ InfoResult(s).path = lastImagePath]_vars
    /\ [][\A s \in Slots :
            (calls[s].pc = "awaitStat" /\ calls'[s].pc # "awaitStat") =>
               /\ lastImagePath' = lastImagePath
               /\ calls'[s].pc = "done" /\ calls'[s].code = "ok"
               /\ InfoResult(s).path = lastImagePath
               /\ IF LastImageOnDisk
                  THEN /\ InfoResult(s).kind = "info"
                       /\ InfoResult(s).sizeKB =
                            (2 * Len(files[lastImagePath]) + 1024) \div 2048
                  ELSE InfoResult(s).kind = "notfound"]_vars

\* a get_last_image_info whose file was there for the existence check and
\* gone for the stat: not found, the stored path echoed and kept
C13_Witness ==
    \E s \in Slots :
       /\ Done(s) /\ calls[s].name = "get_last_image_info"
       /\ calls[s].checked /\ calls[s].content[1].text.kind = "notfound"
       /\ lastImagePath # Null /\ calls[s].content[1].text.path = lastImagePath
       /\ ~LastImageOnDisk

\* C14: a file name generated for an image part (no relative_save_path)
\* is new: the write of such a part never lands on a path that already
\* holds a file, be it from an earlier call or from an earlier part of the
\* same call.
C14_UniqueNames ==
    [][\A s \in Slots :
         (calls[s].pc = "awaitWrite" /\ ~TruthyPath(calls[s].args.relative_save_path)
            /\ Len(calls'[s].savedFiles) > Len(calls[s].savedFiles)) =>
            calls[s].pendingPath \notin DOMAIN files]_vars

\* C15: a generate/edit call makes at most one remote call.  When that call
\* fails the generate/edit call ends at that step with InternalError
\* carrying the method's prefix and the service's message; it has asked for
\* no mkdir and saved no file, and files, directories and lastImagePath are
\* as before the step.
C15_NoRetry ==
    /\ [](\A s \in Slots : calls[s].nRemote <= 1)
    /\ [][\A s \in Slots :
            (calls[s].pc = "awaitRemote"
               /\ calls'[s].pc \notin { "awaitRemote", "awaitMkdir" }) =>
               /\ calls'[s].pc = "done"
               /\ calls'[s].code = "InternalError"
               /\ calls'[s].message = << FailurePrefix(calls[s]), "remote service error" >>
               /\ calls'[s].nRemote = 1
               /\ calls'[s].mkdirs = {} /\ calls'[s].savedFiles = <<>>
               /\ files' = files /\ dirs' = dirs
               /\ lastImagePath' = lastImagePath]_vars

\* an edit_image whose one remote call failed, an earlier image being the
\* last one
C15_Witness ==
    \E s \in Slots :
       /\ Done(s) /\ calls[s].name = "edit_image"
       /\ calls[s].nRemote = 1 /\ calls[s].response = Null
       /\ calls[s].code = "InternalError"
       /\ lastImagePath # Null

\* the last file the call saved
LastSaved(c) == c.savedFiles[Len(c.savedFiles)]

\* C16: with calls overlapping, every completed write sets lastImagePath to
\* the path it wrote, whatever the other calls in flight have done; so
\* lastImagePath is the path of the call whose write completed last,
\* whether that call started before or after the others.
C16_LastWriteWins ==
    /\ [][\A s \in Slots :
            (calls[s].pc = "awaitWrite"
               /\ Len(calls'[s].savedFiles) > Len(calls[s].savedFiles)) =>
               lastImagePath' = calls[s].pendingPath]_vars
    /\ [](\A s \in Slots : calls[s].latest =>
            /\ calls[s].savedFiles # <<>>
            /\ lastImagePath = LastSaved(calls[s]))

\* two overlapping calls, both finished with an image saved: the one that
\* started first completed its write last, and lastImagePath is its path
C16_Witness ==
    \E s, t \in Slots :
       /\ Done(s) /\ Done(t)
       /\ calls[s].name = "edit_image" /\ calls[t].name = "generate_image"
       /\ calls[s].code = "ok" /\ calls[t].code = "ok"
       /\ calls[s].seq < calls[t].seq
       /\ calls[s].latest
       /\ calls[t].savedFiles # <<>>
       /\ LastSaved(calls[s]) # LastSaved(calls[t])
       /\ lastImagePath = LastSaved(calls[s])

\* C17: with configure_gemini_token calls interleaved, a generate/edit call
\* that passed its configuration check makes its remote call on a client
\* that is there and was built from a credential that was live at some
\* moment of the call (the one at its start, or one configured since); it
\* never fails for want of a client.
C17_OldOrNewCredential ==
    \A s \in Slots :
       LET c == calls[s] IN
       (c.name \in ImageTools) =>
          /\ c.nRemote >= 1 =>
                /\ c.client # Null
                /\ c.client.apiKey \in c.live
          /\ Done(s) =>
                c.message # << FailurePrefix(c),
                               "Cannot read properties of null (reading 'models')" >>

\* an edit_image that started under the environment's credential and sent
\* its request with the credential of a configure call taken after it
C17_Witness ==
    \E s, t \in Slots :
       /\ calls[s].name = "edit_image" /\ calls[s].nRemote = 1
       /\ calls[t].name = "configure_gemini_token" /\ calls[t].code = "ok"
       /\ calls[t].seq > calls[s].seq
       /\ calls[s].client = [apiKey |-> Str("k1")]
       /\ calls[s].live = { Str("k0"), Str("k1") }

\* C18: the three configuration fields go together: either there is no
\* config, no client and the source is not_configured, or there is a config
\* with a non-empty credential, the client built from that credential, and
\* a source other than not_configured.
C18_ConfigInvariant ==
    \/ /\ config = Null
       /\ genAI = Null
       /\ configSource = "not_configured"
    \/ /\ config # Null
       /\ Truthy(config.geminiApiKey)
       /\ genAI = [apiKey |-> config.geminiApiKey]
       /\ configSource # "not_configured"

\* the configuration is live: what ensureConfigured tests
Live == config # Null /\ genAI # Null

\* C19: configSource changes only from not_configured to environment in
\* the loading step, and from not_configured or environment to config_file
\* in the step of a configure call that succeeds.  The loading step happens
\* once, while no request has been taken, and requests are taken only after
\* it.  A source other than not_configured never becomes not_configured,
\* and a live configuration stays live.
C19_SourceTransitions ==
    /\ [][configSource' # configSource =>
            \/ /\ configSource = "not_configured" /\ configSource' = "environment"
               /\ ~started /\ started'
            \/ /\ configSource \in { "not_configured", "environment" }
               /\ configSource' = "config_file"
               /\ \E s \in Slots :
                     /\ Accepted(s)
                     /\ calls'[s].name = "configure_gemini_token"
                     /\ calls'[s].code = "ok"]_vars
    /\ [][started' # started => (~started /\ started' /\ ncalls = 0)]_vars
    /\ [][ncalls' # ncalls => started]_vars
    /\ [][configSource # "not_configured" => configSource' # "not_configured"]_vars
    /\ [][Live => Live']_vars

\* the environment's configuration replaced by a configure call, and a
\* later configure call refused
C19_Witness ==
    \E s \in Slots :
       /\ Done(s) /\ calls[s].name = "configure_gemini_token"
       /\ calls[s].code = "InvalidParams"
       /\ configSource = "config_file"
       /\ config.workplacePath = WorkDir /\ config.geminiApiKey = Str("k2")
       /\ Live

\* the step completes a write of the call of slot s
Wrote(s) ==
    /\ calls[s].pc = "awaitWrite"
    /\ Len(calls'[s].savedFiles) > Len(calls[s].savedFiles)
    /\ calls[s].pendingPath \in DOMAIN files'

\* C20: lastImagePath changes only in a step that completes a write, and
\* every such step sets it to the path written; so it is absent while
\* nothing was written and names the file of the most recent write
\* afterwards.  Every step of a call that has saved nothing (configure,
\* status, last-image and unknown-tool calls, calls failing before a write,
\* calls returning a result without image) leaves it unchanged.
C20_LastImageFrame ==
    /\ [][lastImagePath' # lastImagePath => \E s \in Slots : Wrote(s)]_vars
    /\ [][\A s \in Slots : Wrote(s) => lastImagePath' = calls[s].pendingPath]_vars
    /\ [][\A s \in Slots :
            (calls'[s] # calls[s] /\ calls'[s].savedFiles = <<>>) =>
               lastImagePath' = lastImagePath]_vars
    /\ [](\A s \in Slots :
            /\ calls[s].latest => lastImagePath = LastSaved(calls[s])
            /\ lastImagePath = Null => calls[s].savedFiles = <<>>)

\* a call that returned a result without any image, the last image of an
\* earlier call still being the last one
C20_Witness ==
    \E s \in Slots :
       /\ Done(s) /\ calls[s].name \in ImageTools /\ calls[s].code = "ok"
       /\ calls[s].response # Null /\ calls[s].textContent # <<>>
       /\ calls[s].savedFiles = <<>>
       /\ lastImagePath # Null

\* the workplace path of a configuration value (absent without one)
PathOf(cfg) == IF cfg = Null THEN Undefined ELSE cfg.workplacePath

\* the directory images go to under a configuration value
DirOf(cfg) == IF TruthyPath(PathOf(cfg)) THEN PathOf(cfg) ELSE Cwd

\* C21: a configure_gemini_token call that succeeds sets the credential it
\* was given and leaves the workplace path as it was (set from the
\* environment, or absent); after startup no step changes the workplace
\* path, so every file saved under a save path lies at that path below the
\* one workplace directory, before and after any number of configure calls.
C21_WorkplaceKept ==
    /\ [][\A s \in Slots :
            (Accepted(s) /\ calls'[s].name = "configure_gemini_token"
               /\ calls'[s].code = "ok") =>
               /\ config'.geminiApiKey = calls'[s].args.apiKey
               /\ PathOf(config') = PathOf(config)
               /\ DirOf(config') = DirOf(config)]_vars
    /\ [][started => PathOf(config') = PathOf(config)]_vars
    /\ [](\A s \in Slots : \A k \in 1 .. Len(calls[s].savedFiles) :
            TruthyPath(calls[s].args.relative_save_path) =>
               calls[s].savedFiles[k] =
                  PathJoin(DirOf(config), calls[s].args.relative_save_path))

\* an image saved below the environment's workplace directory after two
\* configure calls replaced the credential
C21_Witness ==
    \E s \in Slots :
       /\ Done(s) /\ calls[s].name = "generate_image" /\ calls[s].code = "ok"
       /\ calls[s].seq = 3
       /\ calls[s].client = [apiKey |-> Str("k2")]
       /\ configSource = "config_file"
       /\ config.workplacePath = WorkDir
       /\ calls[s].savedFiles = << PathJoin(WorkDir, OutPic) >>

\* the texts of the parts of a response, concatenated in response order
RECURSIVE TextOfParts(_)
TextOfParts(parts) ==
    IF parts = <<>> THEN <<>>
    ELSE Head(parts).text \o TextOfParts(Tail(parts))
TextOf(response) ==
    IF response.hasParts THEN TextOfParts(response.parts) ELSE <<>>

\* C22: the result of a generate/edit call that returns is one text entry
\* followed by one image entry for each part of the response that carries
\* image data, in response order, and the call has written exactly one file
\* per image entry (a part without data gives neither).  The text entry
\* carries the texts of the response concatenated in order and the files
\* saved, and notes that no image was produced when none was.  A call
\* whose response carries no image fails only if its mkdir failed.
C22_ResultAssembly ==
    /\ [][\A s \in Slots : Succeeds(s) =>
            LET r == calls[s].response
                data == ImageData(r)
                content == calls'[s].content
            IN
            /\ Len(content) = 1 + Len(data)
            /\ content[1].type = "text"
            /\ content[1].text.description = TextOf(r)
            /\ content[1].text.saved = calls'[s].savedFiles
            /\ content[1].text.noImageNote = (Len(data) = 0)
            /\ Len(calls'[s].savedFiles) = Len(data)
            /\ \A k \in 1 .. Len(data) :
                  /\ content[k + 1].type = "image"
                  /\ content[k + 1].data = data[k]
                  /\ calls'[s].savedFiles[k] \in DOMAIN files']_vars
    /\ [](\A s \in Slots :
            (Failed(s) /\ calls[s].name \in ImageTools /\ calls[s].response # Null
               /\ Len(ImageData(calls[s].response)) = 0) =>
               calls[s].message =
                  << FailurePrefix(calls[s]), "EACCES: permission denied, mkdir" >>)

\* an edit_image result for a response of two texts, two images and an
\* image part without data: the text entry, then the two images
C22_Witness ==
    \E s \in Slots :
       /\ Done(s) /\ calls[s].name = "edit_image" /\ calls[s].code = "ok"
       /\ Len(calls[s].response.parts) = 5
       /\ Len(calls[s].content) = 3
       /\ calls[s].content[1].text.description = << "t1", "t2" >>
       /\ calls[s].content[3].data = Base64Encode(<< 66, 67 >>)
       /\ calls[s].content[3].mimeType = "image/png"

====
